---- MODULE Spec2Model ----
(***************************************************************************)
(* Coin98WalletAdapter (solana/src/adapter.ts) as a state machine.         *)
(*                                                                         *)
(* JavaScript is single-threaded: a method runs without interruption from  *)
(* its entry (or from the point where an awaited promise settles) to its   *)
(* next await, return or throw.  Each such synchronous segment is one      *)
(* action.  Calls overlap only at their awaits: a connect() waiting for    *)
(* wallet.connect(), a disconnect() waiting for wallet.disconnect(), a     *)
(* sign call waiting for wallet.request() or for the sleep() timer, and a  *)
(* signAllTransactions() waiting for the promise of its signTransaction(). *)
(* The one place where foreign code runs inside a segment and the segment  *)
(* goes on is the emit() of connect(): its listeners run inside the try    *)
(* block and before the finally block, so that segment is split at each    *)
(* emit(), the methods a listener calls are taken in between, and a        *)
(* listener either returns or throws into the catch or the finally block.  *)
(* In disconnect() and the sign methods nothing but the end of the method  *)
(* (line 125) or the rethrow (lines 146, 179) follows emit(): the          *)
(* listeners either return, or throw and their exception leaves the method *)
(* in place of what it would have returned or raised.  The adapter reads   *)
(* and writes nothing afterwards, so the step takes which of the two       *)
(* happens as an input and records what the caller receives.               *)
(*                                                                         *)
(* The injected wallet is outside the repository; it is modelled as the    *)
(* environment: it settles each pending promise either way, with any       *)
(* answer, and keeps its own isConnected() state.                          *)
(***************************************************************************)
EXTENDS Integers, Sequences, FiniteSets, Bags, TLC

\* ---------------------------------------------------------------- bounds
\* connect() calls past the guard that may be in flight at the same time,
\* awaiting wallet.connect() or inside emit().
MaxConnects == 2
\* disconnect() calls that may await wallet.disconnect() at the same time.
MaxDisconnects == 1
\* Sign calls that may be in flight at the same time.
MaxSigns == 1
\* Longest transaction list given to signAllTransactions.
MaxTxs == 2

\* ---------------------------------------------------------------- values
Null == "null"
\* The injected object window.coin98.sol.
Handle == "sol"
\* A field a response does not carry (JavaScript undefined).
Missing == "undefined"
NoError == "none"

WalletNotFoundError == "WalletNotFoundError"
WalletNotInstalledError == "WalletNotInstalledError"
WalletAccountError == "WalletAccountError"
WalletPublicKeyError == "WalletPublicKeyError"
WalletNotConnectedError == "WalletNotConnectedError"
WalletSignTransactionError == "WalletSignTransactionError"
\* A rejection of the wallet that reaches the caller as it is.
RawWalletError == "Error"
\* An exception thrown by a listener that emit() called.
ListenerError == "ListenerError"

\* The host environment, as far as the adapter looks at it:
\*   nocoin98  window is undefined, or window.coin98 is
\*   nosol     window.coin98 exists, window.coin98.sol does not
\*   fake      window.coin98.sol exists, isCoin98 is not set
\*   genuine   window.coin98.sol exists with isCoin98 = true
\* The adapter keeps no copy of it: connect() and ready look it up each time,
\* and it may have changed in between, so it is an input of the step.
EnvStates == {"nocoin98", "nosol", "fake", "genuine"}

\* Account strings wallet.connect() may report, and the lists it resolves to.
Accounts == {"acctA", "bogus"}
AccountLists == {<<>>, <<"acctA">>, <<"acctA", "bogus">>, <<"bogus", "acctA">>}

\* Transactions handed to the sign methods, the first and the last of those
\* the lists are made of; each names acctA as its signer.
\* The lists given to signAllTransactions: the empty one and the longest,
\* of distinct transactions.
Txs == {1, MaxTxs}
TxLists == {[i \in 1..n |-> i] : n \in {0, MaxTxs}}

\* Byte payloads of signMessage: "e-acute" (C3 A9), one invalid byte, "A"
\* after a byte order mark.
Messages == {<<195, 169>>, <<255>>, <<239, 187, 191, 65>>}
\* Signature strings (UTF-16 code units) a wallet may answer signMessage with:
\* "s", "e-acute", a lone high surrogate, a surrogate pair.
SigStrings == {<<115>>, <<233>>, <<55296>>, <<55357, 56832>>}

VARIABLES
    walletConnected,  \* what wallet.isConnected() answers
    _connecting,      \* Coin98WalletAdapter._connecting
    _wallet,          \* Coin98WalletAdapter._wallet
    _publicKey,       \* Coin98WalletAdapter._publicKey
    nConnect,         \* connect() calls awaiting wallet.connect()
    nDisconnect,      \* disconnect() calls awaiting wallet.disconnect()
    signs,            \* the bag of sign calls in flight
    emits,            \* how the connect() calls inside emit() will end, innermost last
    last              \* what the latest step did, as its caller and listeners see it

vars == <<walletConnected, _connecting, _wallet, _publicKey, nConnect,
          nDisconnect, signs, emits, last>>

\* ---------------------------------------------------------------- getters
publicKey == _publicKey

\* Line 70, in the host environment e.
ready(e) == e # "nocoin98"

connecting == _connecting

connected == _wallet # Null /\ walletConnected

\* ---------------------------------------------------------------- helpers
\* window.coin98?.sol, or Null when the chain yields a falsy value.
LocateWallet(e) == IF e \in {"fake", "genuine"} THEN Handle ELSE Null

IsCoin98(e) == e = "genuine"

\* [account] = await wallet.connect()
FirstAccount(accounts) == IF Len(accounts) = 0 THEN Missing ELSE accounts[1]

\* new PublicKey(s): the key, or Null when the constructor throws.
PublicKeyOf(s) == IF s \in {"acctA", "acctB"} THEN "pk_" \o s ELSE Null

Ev(type, err) == [type |-> type, error |-> err]

NoResp == [undef |-> TRUE, publicKey |-> Missing, signature |-> Missing,
           hasSig |-> FALSE, sig |-> <<>>]
NoValue == [kind |-> "none", txs |-> <<>>, bytes |-> <<>>]

\* The record of a step of method op: phase tells the call's entry ("call")
\* from its resumptions ("resume" after the wallet answered, "wake" after
\* sleep()); outcome is how the call stands after the step ("pending",
\* "returned", "raised"), error what it raised, events what it emitted, value
\* what it returned, issued the wallet methods it invoked, answer how the
\* wallet settled the promise the step resumed from, accounts/resp what
\* wallet.connect() / the request of signTransaction() or signMessage()
\* resolved with.  had, busy: at the step's start, a
\* handle was stored; the adapter was connected or a connect() was awaiting
\* the wallet.  guard: the step went past the guard of connect().  input: the
\* list a signAllTransactions call was given, env the host environment a
\* connect() past the guard found.  settled is FALSE while the
\* outcome is decided but has not reached the caller: connect() is still inside
\* emit(), its listeners running before the finally block, or the promise of
\* signAllTransactions() has yet to take the rejection of its signTransaction().
\* The step that delivers it has phase "exit" and emits nothing.  A step of
\* phase "catch" is the catch block of connect() taking the exception of a
\* listener of 'connect'.  emitted is what a connect() call has emitted from
\* its entry up to and including the step.  had is kept for the methods that
\* read the handle, busy for connect(), which reads the guard.
NoStep ==
    [op |-> "none", phase |-> "none", outcome |-> "none", error |-> NoError,
     events |-> <<>>, value |-> NoValue, issued |-> {}, answer |-> "none",
     accounts |-> <<>>, resp |-> NoResp, had |-> FALSE, busy |-> FALSE,
     guard |-> FALSE, input |-> <<>>, settled |-> TRUE, env |-> "none",
     emitted |-> <<>>]

Step(op, phase) ==
    [NoStep EXCEPT !.op = op, !.phase = phase,
                   !.had = (op # "connect" /\ _wallet # Null),
                   !.busy = (op = "connect" /\ (connected \/ nConnect > 0)),
                   !.guard = TRUE]

\* The step in which an outcome decided earlier reaches the caller.
Exit(op, outcome, err) ==
    [NoStep EXCEPT !.op = op, !.phase = "exit", !.outcome = outcome, !.error = err,
                   !.guard = TRUE]

\* A step that ends in emit() (lines 125, 145, 178), as its listeners leave it:
\* when one of them throws, the exception leaves the method in place of the
\* value or the error of the step; what was emitted stays emitted.
Listeners(step, throws) ==
    IF throws
    THEN [step EXCEPT !.outcome = "raised", !.error = ListenerError, !.value = NoValue]
    ELSE step

\* The call of connect() whose emit() is running, the innermost one.
Emitting == emits[Len(emits)]

Raised(op, phase, err, events) ==
    [Step(op, phase) EXCEPT !.outcome = "raised", !.error = err, !.events = events]

Returned(op, phase, events, value) ==
    [Step(op, phase) EXCEPT !.outcome = "returned", !.events = events, !.value = value]

Suspended(op, phase, issued) ==
    [Step(op, phase) EXCEPT !.outcome = "pending", !.issued = issued]

\* No listener is running: the steps that resume from an await, and those of
\* the environment, are taken from the event loop only.
NoEmit == emits = <<>>

\* No promise job of the adapter is queued: the callback of a timer is a task,
\* which the event loop takes when the job queue is empty.
NoJob == \A call \in BagToSet(signs) : call.phase \notin {"hop", "failed"}

\* ---------------------------------------------------------------- Init
Init ==
    /\ walletConnected = FALSE
    /\ _connecting = FALSE
    /\ _wallet = Null
    /\ _publicKey = Null
    /\ nConnect = 0
    /\ nDisconnect = 0
    /\ signs = EmptyBag
    /\ emits = <<>>
    /\ last = [Step("init", "none") EXCEPT !.guard = FALSE]

\* ---------------------------------------------------------------- environment
\* The wallet ends its session by itself (locked, or disconnected from its UI).
WalletSelfDisconnect ==
    /\ NoEmit
    /\ walletConnected
    /\ walletConnected' = FALSE
    /\ last' = [Step("env", "none") EXCEPT !.guard = FALSE]
    /\ UNCHANGED <<_connecting, _wallet, _publicKey, nConnect, nDisconnect, signs>>
    /\ UNCHANGED emits

\* The wallet opens its session while a wallet.connect() is pending: from then
\* on isConnected() answers true, before the promise of wallet.connect() is
\* delivered to the adapter.
WalletSessionOpens ==
    /\ NoEmit
    /\ nConnect > 0
    /\ ~walletConnected
    /\ walletConnected' = TRUE
    /\ last' = [Step("env", "none") EXCEPT !.guard = FALSE]
    /\ UNCHANGED <<_connecting, _wallet, _publicKey, nConnect, nDisconnect, signs>>
    /\ UNCHANGED emits

\* ---------------------------------------------------------------- connect()
\* Line 83: the guard of connect().
ConnectIsNoop == connected \/ connecting

\* ConnectPrecheck with the two checks in the other order.
ConnectPrecheckSwapped(e) ==
    IF ~IsCoin98(e) THEN WalletNotInstalledError
    ELSE IF LocateWallet(e) = Null THEN WalletNotFoundError
    ELSE NoError

\* Lines 86-88: the error thrown before wallet.connect() is reached, if any.
ConnectPrecheck(e) ==
    IF LocateWallet(e) = Null THEN WalletNotFoundError
    ELSE IF ~IsCoin98(e) THEN WalletNotInstalledError
    ELSE NoError

\* ConnectFinally without the finally block: the flag stays as it is.
ConnectNoFinally == _connecting

\* Lines 111-113: the value the finally block leaves in _connecting.
ConnectFinally == FALSE

\* Lines 108-110: what the catch block emits for the error it rethrows.
ConnectCatch(err) == <<Ev("error", err)>>

\* Lines 107, 109: emit() calls the listeners at once, inside the try block
\* (107) or the catch block (109) and before the finally block runs.  The call
\* stays on emits until they are done, with the outcome it has if they return;
\* what they find is the state this step leaves.
ConnectEmit(step) ==
    /\ emits' = Append(emits, [outcome |-> step.outcome, error |-> step.error,
                               emitted |-> step.events])
    /\ last' = [step EXCEPT !.settled = FALSE, !.emitted = step.events]

\* connect() from its entry to its first await, to its return at the guard, or
\* to the emit() of line 109.
Connect ==
    /\ IF ConnectIsNoop
       THEN \* line 83 returns; the finally block still runs
            /\ _connecting' = ConnectFinally
            /\ last' = [Returned("connect", "call", <<>>, NoValue) EXCEPT !.guard = FALSE]
            /\ UNCHANGED <<nConnect, emits>>
       ELSE \E e \in EnvStates :
            IF ConnectPrecheck(e) # NoError
            THEN \* line 84; lines 87, 88 throw; line 109 emits
                 /\ nConnect + Len(emits) < MaxConnects
                 /\ _connecting' = TRUE
                 /\ ConnectEmit([Raised("connect", "call", ConnectPrecheck(e),
                                        ConnectCatch(ConnectPrecheck(e)))
                                    EXCEPT !.env = e])
                 /\ UNCHANGED nConnect
            ELSE \* line 84, then line 92 suspends on wallet.connect()
                 /\ nConnect + Len(emits) < MaxConnects
                 /\ _connecting' = TRUE
                 /\ nConnect' = nConnect + 1
                 /\ last' = [Suspended("connect", "call", {"connect"}) EXCEPT !.env = e]
                 /\ UNCHANGED emits
    /\ UNCHANGED <<walletConnected, _wallet, _publicKey, nDisconnect, signs>>

\* Lines 104-105: what a successful connect() stores.
ConnectStore(key) == [wallet |-> Handle, publicKey |-> key]

\* Lines 90-102 once wallet.connect() has settled: the error thrown, if any.
\* answer is "resolved" or "rejected".
ConnectAccountError(answer, accounts) ==
    IF answer = "rejected" THEN WalletAccountError
    ELSE IF PublicKeyOf(FirstAccount(accounts)) = Null THEN WalletPublicKeyError
    ELSE NoError

\* wallet.connect() resolves with a list of accounts; lines 92-107, or 92-102
\* and 108-109.
ConnectResolve ==
    /\ NoEmit
    /\ nConnect > 0
    /\ \E accounts \in AccountLists :
         LET err == ConnectAccountError("resolved", accounts)
             key == PublicKeyOf(FirstAccount(accounts))
         IN  IF err # NoError
             THEN /\ ConnectEmit([Raised("connect", "resume", err, ConnectCatch(err))
                                     EXCEPT !.answer = "resolved", !.accounts = accounts])
                  /\ UNCHANGED <<_wallet, _publicKey>>
             ELSE /\ _wallet' = ConnectStore(key).wallet
                  /\ _publicKey' = ConnectStore(key).publicKey
                  /\ ConnectEmit([Returned("connect", "resume",
                                           <<Ev("connect", NoError)>>, NoValue)
                                     EXCEPT !.answer = "resolved", !.accounts = accounts])
    /\ walletConnected' = TRUE
    /\ nConnect' = nConnect - 1
    /\ UNCHANGED <<_connecting, nDisconnect, signs>>

\* wallet.connect() rejects; lines 93-95, 108-109.
ConnectReject ==
    /\ NoEmit
    /\ nConnect > 0
    /\ nConnect' = nConnect - 1
    /\ ConnectEmit([Raised("connect", "resume", ConnectAccountError("rejected", <<>>),
                           ConnectCatch(ConnectAccountError("rejected", <<>>)))
                       EXCEPT !.answer = "rejected"])
    /\ UNCHANGED <<walletConnected, _connecting, _wallet, _publicKey, nDisconnect,
                   signs>>

\* A listener of 'connect' throws: emit() of line 107 passes the exception on,
\* the catch block of line 108 takes it as the error of connect() and line 109
\* emits it, with handle and key stored as lines 104-105 left them.  The
\* listeners of 'error' run next.
ConnectEmitThrows ==
    /\ emits # <<>>
    /\ Emitting.outcome = "returned"
    /\ LET events == ConnectCatch(ListenerError)
           emitted == Emitting.emitted \o events
       IN  /\ emits' = [emits EXCEPT ![Len(emits)] =
                           [outcome |-> "raised", error |-> ListenerError,
                            emitted |-> emitted]]
           /\ last' = [Raised("connect", "catch", ListenerError, events)
                          EXCEPT !.settled = FALSE, !.emitted = emitted]
    /\ UNCHANGED <<walletConnected, _connecting, _wallet, _publicKey, nConnect,
                   nDisconnect, signs>>

\* A listener of 'error' throws: emit() of line 109 passes the exception on,
\* line 110 is not reached, the finally block of lines 111-113 runs and
\* connect() raises the exception of the listener.
ConnectCatchThrows ==
    /\ emits # <<>>
    /\ Emitting.outcome = "raised"
    /\ _connecting' = ConnectFinally
    /\ last' = [Exit("connect", "raised", ListenerError)
                   EXCEPT !.emitted = Emitting.emitted]
    /\ emits' = SubSeq(emits, 1, Len(emits) - 1)
    /\ UNCHANGED <<walletConnected, _wallet, _publicKey, nConnect, nDisconnect,
                   signs>>

\* The listeners of the innermost emit() have returned: line 110 rethrows or
\* the try block ends, and the finally block of lines 111-113 runs.
ConnectExit ==
    /\ emits # <<>>
    /\ _connecting' = ConnectFinally
    /\ last' = [Exit("connect", Emitting.outcome, Emitting.error)
                   EXCEPT !.emitted = Emitting.emitted]
    /\ emits' = SubSeq(emits, 1, Len(emits) - 1)
    /\ UNCHANGED <<walletConnected, _wallet, _publicKey, nConnect, nDisconnect,
                   signs>>

\* ---------------------------------------------------------------- disconnect()
\* DisconnectClear without line 120.
DisconnectClearHandleOnly == [wallet |-> Null, publicKey |-> _publicKey]

\* Lines 119-120: what disconnect() leaves in the two fields.
DisconnectClear == [wallet |-> Null, publicKey |-> Null]

\* Line 125.
DisconnectEmit == <<Ev("disconnect", NoError)>>

\* disconnect() from its entry to its await or return.
Disconnect ==
    /\ IF _wallet # Null
       THEN /\ nDisconnect < MaxDisconnects
            /\ _wallet' = DisconnectClear.wallet
            /\ _publicKey' = DisconnectClear.publicKey
            /\ nDisconnect' = nDisconnect + 1
            /\ last' = Suspended("disconnect", "call", {"disconnect"})
       ELSE /\ \E throws \in BOOLEAN :
                 last' = Listeners(Returned("disconnect", "call", DisconnectEmit, NoValue),
                                   throws)
            /\ UNCHANGED <<_wallet, _publicKey, nDisconnect>>
    /\ UNCHANGED <<walletConnected, _connecting, nConnect, signs>>
    /\ UNCHANGED emits

\* wallet.disconnect() resolves; line 125.
DisconnectResolve ==
    /\ NoEmit
    /\ nDisconnect > 0
    /\ nDisconnect' = nDisconnect - 1
    /\ walletConnected' = FALSE
    /\ \E throws \in BOOLEAN :
         last' = Listeners([Returned("disconnect", "resume", DisconnectEmit, NoValue)
                               EXCEPT !.answer = "resolved"], throws)
    /\ UNCHANGED <<_connecting, _wallet, _publicKey, nConnect, signs>>
    /\ UNCHANGED emits

\* wallet.disconnect() rejects: the await of line 122 throws out of
\* disconnect(), which has no handler.
DisconnectReject ==
    /\ NoEmit
    /\ nDisconnect > 0
    /\ nDisconnect' = nDisconnect - 1
    /\ last' = [Raised("disconnect", "resume", RawWalletError, <<>>)
                   EXCEPT !.answer = "rejected"]
    /\ UNCHANGED <<walletConnected, _connecting, _wallet, _publicKey, nConnect, signs>>
    /\ UNCHANGED emits

\* ---------------------------------------------------------------- text codecs
\* The UTF-8 decoder behind new TextDecoder("utf-8").decode(bytes), to UTF-16
\* code units.  Utf8Need is the number of continuation bytes a lead byte asks
\* for (-1 for a byte that starts no sequence); the first continuation byte
\* has the range Utf8Lower..Utf8Upper, which excludes overlong forms,
\* surrogates and values above U+10FFFF.
Utf8Need(b1) ==
    IF b1 < 128 THEN 0
    ELSE IF b1 \in 194..223 THEN 1
    ELSE IF b1 \in 224..239 THEN 2
    ELSE IF b1 \in 240..244 THEN 3
    ELSE -1

Utf8Lower(b1) == IF b1 = 224 THEN 160 ELSE IF b1 = 240 THEN 144 ELSE 128
Utf8Upper(b1) == IF b1 = 237 THEN 159 ELSE IF b1 = 244 THEN 143 ELSE 191

\* How many of the continuation bytes the lead byte asks for are there.
Utf8Got(b) ==
    LET need == Utf8Need(b[1])
        k1 == need >= 1 /\ Len(b) >= 2 /\ b[2] \in Utf8Lower(b[1])..Utf8Upper(b[1])
        k2 == k1 /\ need >= 2 /\ Len(b) >= 3 /\ b[3] \in 128..191
        k3 == k2 /\ need >= 3 /\ Len(b) >= 4 /\ b[4] \in 128..191
    IN  IF k3 THEN 3 ELSE IF k2 THEN 2 ELSE IF k1 THEN 1 ELSE 0

\* The scalar value of the complete sequence at the head of b.
Utf8Scalar(b) ==
    LET need == Utf8Need(b[1]) IN
    IF need = 0 THEN b[1]
    ELSE IF need = 1 THEN (b[1] - 192) * 64 + (b[2] - 128)
    ELSE IF need = 2 THEN (b[1] - 224) * 4096 + (b[2] - 128) * 64 + (b[3] - 128)
    ELSE (b[1] - 240) * 262144 + (b[2] - 128) * 4096 + (b[3] - 128) * 64 + (b[4] - 128)

\* The UTF-16 code units of a scalar value.
Utf16Units(c) ==
    IF c < 65536 THEN <<c>>
    ELSE <<55296 + ((c - 65536) \div 1024), 56320 + ((c - 65536) % 1024)>>

\* A complete sequence decodes to its scalar value; a byte that starts no
\* sequence, or a sequence cut short, decodes to one U+FFFD and decoding goes
\* on at the byte that broke it.
RECURSIVE Utf8Decode(_)
Utf8Decode(b) ==
    IF b = <<>> THEN <<>>
    ELSE LET need == Utf8Need(b[1])
             got == Utf8Got(b)
         IN  IF need = got
             THEN Utf16Units(Utf8Scalar(b)) \o Utf8Decode(SubSeq(b, need + 2, Len(b)))
             ELSE <<65533>> \o Utf8Decode(SubSeq(b, got + 2, Len(b)))

\* Line 170: new TextDecoder("utf-8").decode(message); ignoreBOM is false, so a
\* leading byte order mark EF BB BF is dropped.
TextDecoderDecode(b) ==
    IF Len(b) >= 3 /\ SubSeq(b, 1, 3) = <<239, 187, 191>>
    THEN Utf8Decode(SubSeq(b, 4, Len(b)))
    ELSE Utf8Decode(b)

\* The UTF-8 bytes of one scalar value.
Utf8Bytes(c) ==
    IF c < 128 THEN <<c>>
    ELSE IF c < 2048 THEN <<192 + (c \div 64), 128 + (c % 64)>>
    ELSE IF c < 65536
         THEN <<224 + (c \div 4096), 128 + ((c \div 64) % 64), 128 + (c % 64)>>
    ELSE <<240 + (c \div 262144), 128 + ((c \div 4096) % 64),
           128 + ((c \div 64) % 64), 128 + (c % 64)>>

\* new TextEncoder().encode(s) of a string of UTF-16 code units: a surrogate
\* pair is one scalar value, a lone surrogate is encoded as U+FFFD.
RECURSIVE Utf8Encode(_)
Utf8Encode(s) ==
    IF s = <<>> THEN <<>>
    ELSE IF s[1] \in 55296..56319 /\ Len(s) >= 2 /\ s[2] \in 56320..57343
         THEN Utf8Bytes(65536 + (s[1] - 55296) * 1024 + (s[2] - 56320))
              \o Utf8Encode(Tail(Tail(s)))
    ELSE IF s[1] \in 55296..57343 THEN Utf8Bytes(65533) \o Utf8Encode(Tail(s))
    ELSE Utf8Bytes(s[1]) \o Utf8Encode(Tail(s))

\* ---------------------------------------------------------------- wallet.request()
Resp(pk, signature) == [undef |-> FALSE, publicKey |-> pk, signature |-> signature,
                        hasSig |-> FALSE, sig |-> <<>>]
MsgResp(str) == [undef |-> FALSE, publicKey |-> Missing, signature |-> Missing,
                 hasSig |-> TRUE, sig |-> str]

\* Answers to a transaction request: the well-formed one, one per way of being
\* malformed, and undefined.
TxResponses ==
    {Resp("acctA", "sig64"), Resp("acctB", "sig64"), Resp("bogus", "sig64"),
     Resp(Missing, "sig64"), Resp("acctA", "sigShort"), Resp("acctA", "notBase58"),
     Resp("acctA", Missing), NoResp}

\* Answers to a message request: a signature string, an answer with no sig
\* field, and undefined.
MsgResponses == {MsgResp(str) : str \in SigStrings} \cup {Resp("acctA", "sig64"), NoResp}

\* A request the wallet holds: { method: 'sol_sign', params: [...] }; idx is the
\* position of the transaction in the list of signAllTransactions (0 outside).
Req(idx, kind, tx, text) ==
    [idx |-> idx, method |-> "sol_sign", kind |-> kind, tx |-> tx, text |-> text]

\* A sign call in flight: its arguments, its position in the loop of
\* signAllTransactions, and the requests it has with the wallet.  got is what
\* the signTransaction() of line 155 returned and the loop has yet to take, end
\* the error that signTransaction() threw and the call has yet to be rejected
\* with.
Call(op) == [op |-> op, tx |-> 0, msg |-> <<>>, txs |-> <<>>, i |-> 0,
             signed |-> <<>>, phase |-> "request", req |-> {},
             got |-> [tx |-> 0, signer |-> Null, sig |-> Missing], end |-> NoError]

Add(call) == signs (+) SetToBag({call})
Remove(call) == signs (-) SetToBag({call})
Replace(old, new) == (signs (-) SetToBag({old})) (+) SetToBag({new})

\* ---------------------------------------------------------------- signTransaction()
NoSigned == [tx |-> 0, signer |-> Null, sig |-> Missing]

\* bs58.decode(s): the number of bytes decoded, or -1 when it throws.
Bs58Decode(s) ==
    IF s = "sig64" THEN 64 ELSE IF s = "sigShort" THEN 8 ELSE -1

\* The signers a transaction was compiled with.
Signers(tx) == {PublicKeyOf("acctA")}

\* transaction.addSignature(publicKey, signature) of web3.js: throws unless the
\* signature has 64 bytes and the key is a signer of the transaction.
AddSignature(tx, key, signature) ==
    IF Bs58Decode(signature) # 64 \/ key \notin Signers(tx) THEN NoSigned
    ELSE [tx |-> tx, signer |-> key, sig |-> signature]

\* Lines 136-140 on a response: the signed transaction, or NoSigned when one
\* of the lines throws.
SignTransactionResult(tx, resp) ==
    IF resp.undef THEN NoSigned
    ELSE IF PublicKeyOf(resp.publicKey) = Null THEN NoSigned
    ELSE IF Bs58Decode(resp.signature) < 0 THEN NoSigned
    ELSE AddSignature(tx, PublicKeyOf(resp.publicKey), resp.signature)

\* Lines 130-131: whether signTransaction() goes on to the wallet.
SignTransactionHasWallet == _wallet # Null

\* Line 134: the requests signTransaction(tx) hands the wallet.
SignTransactionRequests(idx, tx) == {Req(idx, "tx", tx, <<>>)}

\* Lines 141-146: the error a failed request is rethrown as, and the events.
SignTransactionCatch == WalletSignTransactionError
SignTransactionEmit(err) == <<Ev("error", err)>>

\* signTransaction(tx) from its entry to its await or throw; without a handle
\* the transaction is not looked at.
SignTransaction ==
    /\ IF ~SignTransactionHasWallet
       THEN /\ \E throws \in BOOLEAN :
                 last' = Listeners(Raised("signTransaction", "call",
                                          WalletNotConnectedError,
                                          SignTransactionEmit(WalletNotConnectedError)),
                                   throws)
            /\ UNCHANGED signs
       ELSE \E tx \in Txs :
            /\ BagCardinality(signs) < MaxSigns
            /\ signs' = Add([Call("signTransaction") EXCEPT
                                !.tx = tx, !.req = SignTransactionRequests(0, tx)])
            /\ last' = Suspended("signTransaction", "call",
                                 {"request" : r \in SignTransactionRequests(0, tx)})
    /\ UNCHANGED <<walletConnected, _connecting, _wallet, _publicKey, nConnect,
                   nDisconnect>>
    /\ UNCHANGED emits

SignTransactionResolve ==
    /\ NoEmit
    /\ \E call \in BagToSet(signs), resp \in TxResponses :
         /\ call.op = "signTransaction"
         /\ call.req # {}
         /\ signs' = Remove(call)
         /\ LET signed == SignTransactionResult(call.tx, resp) IN
            IF signed = NoSigned
            THEN \E throws \in BOOLEAN :
                   last' = Listeners([Raised("signTransaction", "resume",
                                             SignTransactionCatch,
                                             SignTransactionEmit(SignTransactionCatch))
                                         EXCEPT !.answer = "resolved", !.resp = resp],
                                     throws)
            ELSE last' = [Returned("signTransaction", "resume", <<>>,
                                   [kind |-> "tx", txs |-> <<signed>>, bytes |-> <<>>])
                             EXCEPT !.answer = "resolved", !.resp = resp]
    /\ UNCHANGED <<walletConnected, _connecting, _wallet, _publicKey, nConnect,
                   nDisconnect>>
    /\ UNCHANGED emits

SignTransactionReject ==
    /\ NoEmit
    /\ \E call \in BagToSet(signs) :
         /\ call.op = "signTransaction"
         /\ call.req # {}
         /\ signs' = Remove(call)
         /\ \E throws \in BOOLEAN :
              last' = Listeners([Raised("signTransaction", "resume", SignTransactionCatch,
                                        SignTransactionEmit(SignTransactionCatch))
                                    EXCEPT !.answer = "rejected"], throws)
    /\ UNCHANGED <<walletConnected, _connecting, _wallet, _publicKey, nConnect,
                   nDisconnect>>
    /\ UNCHANGED emits

\* ---------------------------------------------------------------- signMessage()
\* Lines 165-166.
SignMessageHasWallet == _wallet # Null

\* Lines 170-171: the request signMessage(msg) hands the wallet.
\* The text of the request without the decoding of line 170: the bytes taken
\* one code unit each.
SignMessageRequestsRaw(msg) == {Req(0, "text", 0, msg)}

SignMessageRequests(msg) == {Req(0, "text", 0, TextDecoderDecode(msg))}

\* Lines 171-173 on a response: [ok, bytes]; ok is FALSE when the
\* destructuring throws.  encode(undefined) is the empty array.
SignMessageResult(resp) ==
    IF resp.undef THEN [ok |-> FALSE, bytes |-> <<>>]
    ELSE IF ~resp.hasSig THEN [ok |-> TRUE, bytes |-> <<>>]
    ELSE [ok |-> TRUE, bytes |-> Utf8Encode(resp.sig)]

\* Lines 174-179.
SignMessageCatch == WalletSignTransactionError
SignMessageEmit(err) == <<Ev("error", err)>>

\* signMessage(msg) from its entry to its await or throw; without a handle the
\* message is not looked at.
SignMessage ==
    /\ IF ~SignMessageHasWallet
       THEN /\ \E throws \in BOOLEAN :
                 last' = Listeners(Raised("signMessage", "call",
                                          WalletNotConnectedError,
                                          SignMessageEmit(WalletNotConnectedError)),
                                   throws)
            /\ UNCHANGED signs
       ELSE \E msg \in Messages :
            /\ BagCardinality(signs) < MaxSigns
            /\ signs' = Add([Call("signMessage") EXCEPT
                                !.msg = msg, !.req = SignMessageRequests(msg)])
            /\ last' = Suspended("signMessage", "call",
                                 {"request" : r \in SignMessageRequests(msg)})
    /\ UNCHANGED <<walletConnected, _connecting, _wallet, _publicKey, nConnect,
                   nDisconnect>>
    /\ UNCHANGED emits

SignMessageResolve ==
    /\ NoEmit
    /\ \E call \in BagToSet(signs), resp \in MsgResponses :
         /\ call.op = "signMessage"
         /\ call.req # {}
         /\ signs' = Remove(call)
         /\ LET res == SignMessageResult(resp) IN
            IF ~res.ok
            THEN \E throws \in BOOLEAN :
                   last' = Listeners([Raised("signMessage", "resume", SignMessageCatch,
                                             SignMessageEmit(SignMessageCatch))
                                         EXCEPT !.answer = "resolved", !.resp = resp],
                                     throws)
            ELSE last' = [Returned("signMessage", "resume", <<>>,
                                   [kind |-> "bytes", txs |-> <<>>, bytes |-> res.bytes])
                             EXCEPT !.answer = "resolved", !.resp = resp]
    /\ UNCHANGED <<walletConnected, _connecting, _wallet, _publicKey, nConnect,
                   nDisconnect>>
    /\ UNCHANGED emits

SignMessageReject ==
    /\ NoEmit
    /\ \E call \in BagToSet(signs) :
         /\ call.op = "signMessage"
         /\ call.req # {}
         /\ signs' = Remove(call)
         /\ \E throws \in BOOLEAN :
              last' = Listeners([Raised("signMessage", "resume", SignMessageCatch,
                                        SignMessageEmit(SignMessageCatch))
                                    EXCEPT !.answer = "rejected"], throws)
    /\ UNCHANGED <<walletConnected, _connecting, _wallet, _publicKey, nConnect,
                   nDisconnect>>
    /\ UNCHANGED emits

\* ---------------------------------------------------------------- signAllTransactions()
\* SignAllPush with unshift for push.
SignAllUnshift(signed, tx) == <<tx>> \o signed

\* Line 156.
SignAllPush(signed, tx) == Append(signed, tx)

\* Line 154: the element the loop takes after element i.
SignAllNext(i) == i + 1

\* The signTransaction() of line 155 fails with step as its outcome: it has
\* emitted and thrown (lines 145-146); the await of line 155 throws out of
\* signAllTransactions() in a later turn of the job queue, with the error of
\* line 146 or, when a listener of line 145 throws, with its exception.
\* Nothing reads the loop's position and list again: the call keeps its
\* argument and the error.
SignAllFail(old, call, step) ==
    \E throws \in BOOLEAN :
        /\ signs' = (signs (-) SetToBag(old)) (+) SetToBag({
                       [Call("signAllTransactions") EXCEPT
                           !.txs = call.txs, !.phase = "failed",
                           !.end = Listeners(step, throws).error]})
        /\ last' = [Listeners(step, throws) EXCEPT !.settled = FALSE]

\* The loop of lines 154-158 reaching element i: the signTransaction() of line
\* 155 up to its await or throw.  old is the call's record in signs (or none,
\* at the call's entry), call its record so far.
SignAllEnter(old, call, i) ==
    LET phase == IF i = 1 THEN "call" ELSE "wake" IN
    IF ~SignTransactionHasWallet
    THEN SignAllFail(old, [call EXCEPT !.i = i],
                     [Raised("signAllTransactions", phase, WalletNotConnectedError,
                             SignTransactionEmit(WalletNotConnectedError))
                         EXCEPT !.input = call.txs])
    ELSE /\ signs' = (signs (-) SetToBag(old)) (+) SetToBag({
                        [call EXCEPT !.i = i, !.phase = "request",
                                     !.req = @ \cup SignTransactionRequests(i, call.txs[i])]})
         /\ last' = [Suspended("signAllTransactions", phase,
                               {"request" : r \in SignTransactionRequests(i, call.txs[i])})
                        EXCEPT !.input = call.txs]

SignAllTransactions ==
    /\ \E txs \in TxLists :
         IF txs = <<>>
         THEN \* the loop body never runs; line 159
              /\ last' = Returned("signAllTransactions", "call", <<>>,
                                  [kind |-> "txs", txs |-> <<>>, bytes |-> <<>>])
              /\ UNCHANGED signs
         ELSE /\ BagCardinality(signs) < MaxSigns
              /\ SignAllEnter({}, [Call("signAllTransactions") EXCEPT !.txs = txs], 1)
    /\ UNCHANGED <<walletConnected, _connecting, _wallet, _publicKey, nConnect,
                   nDisconnect, emits>>

\* The request of the current element resolves and signTransaction() runs on:
\* lines 136-140, or 141-146 when one of them throws.
SignAllResolve ==
    /\ NoEmit
    /\ \E call \in BagToSet(signs), resp \in TxResponses :
         /\ call.op = "signAllTransactions"
         /\ \E r \in call.req :
              LET signed == SignTransactionResult(r.tx, resp) IN
              IF signed = NoSigned
              THEN SignAllFail({call}, call,
                               [Raised("signAllTransactions", "resume", SignTransactionCatch,
                                       SignTransactionEmit(SignTransactionCatch))
                                   EXCEPT !.answer = "resolved", !.input = call.txs])
              ELSE /\ signs' = Replace(call, [call EXCEPT
                                   !.req = @ \ {r}, !.got = signed, !.phase = "hop"])
                   /\ last' = [Suspended("signAllTransactions", "resume", {})
                                  EXCEPT !.answer = "resolved", !.input = call.txs]
    /\ UNCHANGED <<walletConnected, _connecting, _wallet, _publicKey, nConnect,
                   nDisconnect, emits>>

\* The request of the current element is rejected: lines 141-146.
SignAllReject ==
    /\ NoEmit
    /\ \E call \in BagToSet(signs) :
         /\ call.op = "signAllTransactions"
         /\ call.req # {}
         /\ SignAllFail({call}, call,
                        [Raised("signAllTransactions", "resume", SignTransactionCatch,
                                SignTransactionEmit(SignTransactionCatch))
                            EXCEPT !.answer = "rejected", !.input = call.txs])
    /\ UNCHANGED <<walletConnected, _connecting, _wallet, _publicKey, nConnect,
                   nDisconnect, emits>>

\* The await of line 155 takes the transaction signTransaction() returned:
\* line 156 pushes it, line 157 starts the timer of sleep().
SignAllContinue ==
    /\ NoEmit
    /\ \E call \in BagToSet(signs) :
         /\ call.op = "signAllTransactions"
         /\ call.phase = "hop"
         /\ signs' = Replace(call, [call EXCEPT
                         !.signed = SignAllPush(@, call.got),
                         !.got = Call("signAllTransactions").got,
                         !.phase = "sleep"])
         /\ last' = [Suspended("signAllTransactions", "push", {})
                        EXCEPT !.input = call.txs]
    /\ UNCHANGED <<walletConnected, _connecting, _wallet, _publicKey, nConnect,
                   nDisconnect, emits>>

\* The await of line 155 takes the failure of signTransaction(): it throws out
\* of signAllTransactions(), which has no handler.
SignAllSettle ==
    /\ NoEmit
    /\ \E call \in BagToSet(signs) :
         /\ call.op = "signAllTransactions"
         /\ call.phase = "failed"
         /\ signs' = Remove(call)
         /\ last' = [Exit("signAllTransactions", "raised", call.end)
                        EXCEPT !.input = call.txs]
    /\ UNCHANGED <<walletConnected, _connecting, _wallet, _publicKey, nConnect,
                   nDisconnect, emits>>

\* The timer of sleep() fires: the loop goes on to the next element, or line
\* 159 returns the list.
SignAllWake ==
    /\ NoEmit
    /\ NoJob
    /\ \E call \in BagToSet(signs) :
         /\ call.op = "signAllTransactions"
         /\ call.phase = "sleep"
         /\ IF call.i = Len(call.txs)
            THEN /\ signs' = Remove(call)
                 /\ last' = [Returned("signAllTransactions", "wake", <<>>,
                                      [kind |-> "txs", txs |-> call.signed, bytes |-> <<>>])
                                EXCEPT !.input = call.txs]
            ELSE SignAllEnter({call}, call, SignAllNext(call.i))
    /\ UNCHANGED <<walletConnected, _connecting, _wallet, _publicKey, nConnect,
                   nDisconnect, emits>>

Next ==
    \/ WalletSelfDisconnect
    \/ WalletSessionOpens
    \/ Connect
    \/ ConnectResolve
    \/ ConnectReject
    \/ ConnectEmitThrows
    \/ ConnectCatchThrows
    \/ ConnectExit
    \/ Disconnect
    \/ DisconnectResolve
    \/ DisconnectReject
    \/ SignMessage
    \/ SignMessageResolve
    \/ SignMessageReject
    \/ SignTransaction
    \/ SignTransactionResolve
    \/ SignTransactionReject
    \/ SignAllTransactions
    \/ SignAllResolve
    \/ SignAllReject
    \/ SignAllContinue
    \/ SignAllSettle
    \/ SignAllWake

Spec == Init /\ [][Next]_vars

\* ================================================================ claims
Taxonomy ==
    {WalletNotFoundError, WalletNotInstalledError, WalletAccountError,
     WalletPublicKeyError, WalletNotConnectedError, WalletSignTransactionError}

ErrorEvent(err) == <<Ev("error", err)>>

Ended == last.outcome \in {"returned", "raised"}

\* C1: a connect() entered while the adapter is connected, or while an earlier
\* connect() still awaits wallet.connect(), is a no-op: it returns without
\* invoking wallet.connect(), so no two wallet.connect() are ever outstanding.
C1_ConnectWhileBusyIsNoop ==
    /\ (last.op = "connect" /\ last.phase = "call" /\ last.busy)
          => (last.outcome = "returned" /\ last.issued = {})
    /\ nConnect <= 1

\* C2: every disconnect() call that has ended left publicKey null and emitted
\* exactly one 'disconnect' event, whatever wallet.disconnect() did.
C2_DisconnectClearsAndEmits ==
    (last.op = "disconnect" /\ Ended)
       => (publicKey = Null /\ last.events = <<Ev("disconnect", NoError)>>)

\* C3: a signTransaction() or signMessage() entered while the stored handle is
\* null raises WalletNotConnectedError, emits one 'error' event carrying it,
\* and hands the wallet no request.
C3_SignWithoutHandleFails ==
    [][(_wallet = Null /\ last'.op \in {"signTransaction", "signMessage"}
          /\ last'.phase = "call")
         => (/\ last'.outcome = "raised"
             /\ last'.error = WalletNotConnectedError
             /\ last'.events = ErrorEvent(WalletNotConnectedError)
             /\ last'.issued = {}
             /\ signs' = signs)]_vars

\* C4: a signAllTransactions call has at most one request with the wallet, the
\* one for the element the loop is at; the elements before it have resolved
\* and are pushed in input order; the list returned is the input list, signed,
\* in the same order.
C4_SignAllSequential ==
    /\ \A call \in BagToSet(signs) :
         call.op = "signAllTransactions" =>
            /\ Cardinality(call.req) <= 1
            /\ \A r \in call.req : r.idx = call.i /\ r.tx = call.txs[call.i]
            /\ call.phase = "request" => (call.req # {} /\ Len(call.signed) = call.i - 1)
            /\ call.phase = "hop" => (/\ call.req = {}
                                      /\ Len(call.signed) = call.i - 1
                                      /\ call.got.tx = call.txs[call.i])
            /\ call.phase = "sleep" => (call.req = {} /\ Len(call.signed) = call.i)
            /\ call.phase = "failed" => call.req = {}
            /\ \A k \in 1..Len(call.signed) : call.signed[k].tx = call.txs[k]
    /\ (last.op = "signAllTransactions" /\ last.outcome = "returned")
          => (/\ Len(last.value.txs) = Len(last.input)
              /\ \A k \in 1..Len(last.input) : last.value.txs[k].tx = last.input[k])

\* C4 witness: a call returned a list of two signed transactions.
C4_Witness ==
    /\ last.op = "signAllTransactions"
    /\ last.outcome = "returned"
    /\ Len(last.value.txs) >= 2

\* C5: after a connect() call that failed, publicKey and the stored handle are
\* both null.
C5_FailedConnectLeavesDisconnected ==
    (last.op = "connect" /\ last.outcome = "raised")
       => (publicKey = Null /\ _wallet = Null)

\* C6: publicKey is non-null exactly when the stored handle is non-null.
C6_PublicKeyIffHandle == (publicKey # Null) <=> (_wallet # Null)

\* C6 witness: a reconnected adapter while a disconnect() and a sign call of
\* the earlier session are still in flight.
C6_Witness ==
    /\ publicKey # Null
    /\ _wallet # Null
    /\ nDisconnect > 0
    /\ signs # EmptyBag

C8_ConnectEndsOneWay ==
    (last.op = "connect" /\ last.guard /\ Ended) =>
       /\ \/ /\ last.outcome = "returned"
             /\ last.error = NoError
             /\ last.emitted = <<Ev("connect", NoError)>>
          \/ /\ last.outcome = "raised"
             /\ last.emitted = ErrorEvent(last.error)
       /\ last.phase = "exit" => last.events = <<>>
       /\ last.phase # "exit"
             => /\ ~last.settled
                /\ last.events = last.emitted
                /\ emits # <<>>
                /\ Emitting = [outcome |-> last.outcome, error |-> last.error,
                               emitted |-> last.emitted]
                /\ last.outcome = "returned" => (_wallet # Null /\ publicKey # Null)

\* C9: a step in which a wallet call of a public method is found rejected
\* raises an error of the taxonomy and emits one 'error' event carrying it.
C9_WalletFailurePropagates ==
    last.answer = "rejected" =>
       /\ last.outcome = "raised"
       /\ last.error \in Taxonomy
       /\ last.events = ErrorEvent(last.error)

\* A response that lacks, or carries unparsable, the fields the method reads.
Malformed(op, resp) ==
    \/ resp.undef
    \/ /\ op = "signTransaction"
       /\ \/ resp.publicKey \notin {"acctA", "acctB"}
          \/ resp.signature \notin {"sig64", "sigShort"}
    \/ /\ op = "signMessage"
       /\ ~resp.hasSig

\* C10: a signTransaction() or signMessage() whose request is rejected, or
\* answered with a malformed response, raises WalletSignTransactionError,
\* emits one 'error' event and returns no value.
C10_SignFailureRaises ==
    (/\ last.op \in {"signTransaction", "signMessage"}
     /\ last.phase = "resume"
     /\ (last.answer = "rejected" \/ Malformed(last.op, last.resp)))
       => (/\ last.outcome = "raised"
           /\ last.error = WalletSignTransactionError
           /\ last.events = ErrorEvent(WalletSignTransactionError)
           /\ last.value = NoValue)

\* C11: when the wallet itself ends the session of a connected adapter, the
\* adapter clears handle and publicKey and emits 'disconnect'.
C11_WalletDisconnectReachesAdapter ==
    [][(connected /\ ~walletConnected' /\ last'.op = "env")
         => (/\ _wallet' = Null
             /\ _publicKey' = Null
             /\ \E k \in 1..Len(last'.events) : last'.events[k].type = "disconnect")]_vars

\* C12: the flags connecting and connected are never both true.
C12_ConnectingExcludesConnected == ~(connecting /\ connected)

\* C13: while no connect() call is suspended at wallet.connect() or inside
\* emit(), that is while every connect() call has returned or raised,
\* connecting is false.
C13_IdleMeansNotConnecting == (nConnect = 0 /\ emits = <<>>) => ~connecting

\* C13 witness: a connect() that went to the wallet has just ended with an
\* error, none is left in flight, and the flag is down.
C13_Witness ==
    /\ nConnect = 0
    /\ emits = <<>>
    /\ last.op = "connect"
    /\ last.phase = "exit"
    /\ last.outcome = "raised"
    /\ last.error = WalletAccountError
    /\ ~connecting

\* C14: ready tells whether the wallet object connect() looks up is there: a
\* connect() past the guard fails with WalletNotFound exactly when ready is
\* false.
C14_ReadyIffWalletFound ==
    (last.op = "connect" /\ last.phase = "call" /\ last.guard)
       => (ready(last.env) <=> ~(last.outcome = "raised" /\ last.error = WalletNotFoundError))

\* The request a suspended signMessage() holds at the wallet: exactly one,
\* whose text is the decoding of the bytes the call was given.
SignMessageOneRequest ==
    \A call \in BagToSet(signs) :
        call.op = "signMessage"
           => call.req = {[idx |-> 0, method |-> "sol_sign", kind |-> "text",
                           tx |-> 0, text |-> TextDecoderDecode(call.msg)]}

\* A signMessage() that got an answer carrying a signature string.
SignMessageAnswered ==
    /\ last.op = "signMessage"
    /\ last.phase = "resume"
    /\ last.answer = "resolved"
    /\ last.resp.hasSig

\* A string of UTF-16 code units with every unpaired surrogate replaced by
\* U+FFFD.
RECURSIVE ReplaceLoneSurrogates(_)
ReplaceLoneSurrogates(str) ==
    IF str = <<>> THEN <<>>
    ELSE IF str[1] \in 55296..56319 /\ Len(str) >= 2 /\ str[2] \in 56320..57343
         THEN <<str[1], str[2]>> \o ReplaceLoneSurrogates(Tail(Tail(str)))
    ELSE IF str[1] \in 55296..57343 THEN <<65533>> \o ReplaceLoneSurrogates(Tail(str))
    ELSE <<str[1]>> \o ReplaceLoneSurrogates(Tail(str))

\* C15 as stated: signMessage(bytes) sends one request with the decoded bytes
\* and, given a signature string, returns bytes that decode back to exactly
\* that string, with no error event.
C15_SignMessageRoundTrip ==
    /\ SignMessageOneRequest
    /\ SignMessageAnswered
          => /\ last.outcome = "returned"
             /\ last.events = <<>>
             /\ Utf8Decode(last.value.bytes) = last.resp.sig

\* C15 amended: signMessage(bytes) sends one request with the decoded bytes
\* and, given a signature string, returns without an error event the UTF-8
\* encoding of that string in which every unpaired surrogate is encoded as
\* U+FFFD; the bytes decode back to the wallet's string exactly when it has no
\* unpaired surrogate.
C15_SignMessageRoundTripScalar ==
    /\ SignMessageOneRequest
    /\ SignMessageAnswered
          => /\ last.outcome = "returned"
             /\ last.events = <<>>
             /\ last.value.kind = "bytes"
             /\ Utf8Decode(last.value.bytes) = ReplaceLoneSurrogates(last.resp.sig)
             /\ (Utf8Decode(last.value.bytes) = last.resp.sig
                    <=> ReplaceLoneSurrogates(last.resp.sig) = last.resp.sig)

\* C15 witness: a signMessage() has returned the four bytes of a signature
\* string made of one surrogate pair.
C15_Witness ==
    /\ SignMessageAnswered
    /\ _wallet # Null
    /\ last.outcome = "returned"
    /\ last.resp.sig = <<55357, 56832>>
    /\ last.value.bytes = <<240, 159, 152, 128>>

\* C16: the stored handle and publicKey are changed only by the last step of a
\* successful connect(), which sets both, and by the entry of disconnect(),
\* which clears both; the sign methods, a no-op connect(), a failing connect()
\* and the environment leave them as they are.  The connect() that stored them
\* and emitted 'connect' is a successful one: it does not go on to raise.
C16_HandleChangedOnlyByConnectAndDisconnect ==
    [][/\ (_wallet' # _wallet \/ _publicKey' # _publicKey)
             => \/ /\ last'.op = "connect"
                   /\ last'.phase = "resume"
                   /\ last'.guard
                   /\ last'.outcome = "returned"
                   /\ _wallet' = Handle
                   /\ _publicKey' # Null
                \/ /\ last'.op = "disconnect"
                   /\ last'.phase = "call"
                   /\ _wallet' = Null
                   /\ _publicKey' = Null
       /\ (/\ last'.op = "connect"
           /\ \E k \in 1..Len(last'.emitted) : last'.emitted[k].type = "connect")
             => last'.outcome = "returned"]_vars

\* C17: whenever a 'disconnect' event is emitted the stored handle and
\* publicKey are null, and a disconnect() entered with a stored handle emits
\* nothing before wallet.disconnect() has resolved.
C17_DisconnectEventMeansCleared ==
    /\ (\E k \in 1..Len(last.events) : last.events[k].type = "disconnect")
          => (publicKey = Null /\ _wallet = Null)
    /\ (last.op = "disconnect" /\ last.phase = "call" /\ last.had)
          => last.events = <<>>

\* C18: while a connect() past the guard awaits the answer of wallet.connect(),
\* connecting is true.
C18_AwaitingMeansConnecting == nConnect > 0 => connecting

\* C19: the signTransaction() of a signAllTransactions() fails when its request
\* is rejected; and whenever it fails (rejection or malformed answer:
\* SignTransactionError; handle found cleared at the call or after the delay:
\* NotConnectedError) it emits exactly the one 'error' event of that error, the
\* call returns no list and issues no request, and from then on it holds no
\* request and does nothing but raise that same error, emitting nothing more.
C19_SignAllStopsAtFailure ==
    [][/\ (last'.op = "signAllTransactions" /\ last'.answer = "rejected")
             => last'.outcome = "raised"
       /\ (last'.op = "signAllTransactions" /\ last'.outcome = "raised"
              /\ last'.phase # "exit")
             => /\ ~last'.settled
                /\ last'.error = IF last'.phase = "resume"
                                 THEN WalletSignTransactionError
                                 ELSE WalletNotConnectedError
                /\ last'.events = ErrorEvent(last'.error)
                /\ last'.value = NoValue
                /\ last'.issued = {}
                /\ \E call \in BagToSet(signs') :
                       /\ call.phase = "failed"
                       /\ call.end = last'.error
                       /\ call.txs = last'.input
                       /\ CopiesIn(call, signs') > CopiesIn(call, signs)
       /\ (last'.op = "signAllTransactions" /\ last'.phase = "exit")
             => /\ last'.outcome = "raised"
                /\ last'.events = <<>>
                /\ last'.value = NoValue
                /\ last'.issued = {}
                /\ \E call \in BagToSet(signs) :
                       /\ call.phase = "failed"
                       /\ call.end = last'.error
                       /\ call.txs = last'.input
                       /\ signs' = signs (-) SetToBag({call})
       /\ \A call \in BagToSet(signs) :
              call.phase = "failed"
                 => /\ call.req = {}
                    /\ \/ CopiesIn(call, signs') >= CopiesIn(call, signs)
                       \/ last'.op = "signAllTransactions" /\ last'.phase = "exit"]_vars

====
